---- MODULE Spec2Model ----
(***************************************************************************)
(* A model of picontrol-rs: the RevPiControl driver handle (src/lib.rs)    *)
(* and the variable read/write helpers of the pitestrs binary              *)
(* (src/bin/pitestrs.rs).                                                  *)
(*                                                                         *)
(* The program is single threaded.  Every public operation is one action;  *)
(* dump is split at the iterations of its copy loop.  Each action leaves   *)
(* in `call` what was called and with which arguments, in `result` what it *)
(* returned, and in `io` the system calls it made, in order; Return is the *)
(* caller taking the result, after which the next operation can be called. *)
(*                                                                         *)
(* Numbers wider than 16 bits are kept as little-endian sequences of       *)
(* 16-bit limbs (a u32 is <<lo, hi>>, a u64 is <<l0, l1, l2, l3>>), so     *)
(* that the full u32/u64 range is covered without leaving TLC's integers.  *)
(***************************************************************************)
EXTENDS Integers, Sequences, FiniteSets, TLC

(***************************************************************************)
(* Bounds of the model                                                     *)
(***************************************************************************)
\* Size of the device's process image in bytes.
DevLen == 5
\* Number of image-changing operations in one run.
MaxWrites == 1
\* Largest number of bytes one read(2) on the device hands back.
MaxChunk == 2
\* Largest number of device records the driver fills in.
MaxDevs == 2
\* Number of reads in one copy that return less than there is room for.
MaxShort == 2

(***************************************************************************)
(* Program constants                                                       *)
(***************************************************************************)
\* picontrol::REV_PI_DEV_CNT_MAX, from the bindings of piControl.h; the
\* capacity of the array get_device_info_list hands to the ioctl.
REV_PI_DEV_CNT_MAX == 64
\* RevPiControl::SMALL_BUFFER_SIZE and LARGE_BUFFER_SIZE
SMALL_BUFFER_SIZE == 256
LARGE_BUFFER_SIZE == 64 * 1024

(***************************************************************************)
(* Fixed-width numbers                                                     *)
(***************************************************************************)
RECURSIVE Pow2(_)
Pow2(k) == IF k = 0 THEN 1 ELSE 2 * Pow2(k - 1)

\* `x as u64` for a u32 x
U32AsU64(x) == <<x[1], x[2], 0, 0>>
\* `x as u32` for a u16 or u8 x
AsU32(x) == <<x, 0>>
\* `num as u8`, `num as u16`, `num as u32` for a u64 num
U64AsU8(num) == num[1] % 256
U64AsU16(num) == num[1]
U64AsU32(num) == <<num[1], num[2]>>

\* write_u16 with the bytes in big-endian order.
write_u16_be(n) == <<n \div 256, n % 256>>

\* byteorder::LittleEndian::write_u16 / write_u32 / write_u64
write_u16(n) == <<n % 256, n \div 256>>
write_u32(n) == write_u16(n[1]) \o write_u16(n[2])
write_u64(n) == write_u16(n[1]) \o write_u16(n[2]) \o write_u16(n[3]) \o write_u16(n[4])

\* byteorder::LittleEndian::read_u16 / read_u32
read_u16(data) == data[1] + 256 * data[2]
read_u32(data) == <<read_u16(SubSeq(data, 1, 2)), read_u16(SubSeq(data, 3, 4))>>

Ok(bytes) == [ok |-> TRUE, bytes |-> bytes]
InvalidSize == [ok |-> FALSE, bytes |-> <<>>]

\* num_to_bytes(num: u64, size: usize)
num_to_bytes(num, size) ==
    CASE size = 8  -> Ok(<<U64AsU8(num)>>)
      [] size = 16 -> Ok(write_u16(U64AsU16(num)))
      [] size = 32 -> Ok(write_u32(U64AsU32(num)))
      [] size = 64 -> Ok(write_u64(num))
      [] OTHER     -> InvalidSize

\* The inner match of read_variable_value: bytes of a variable of bit length
\* `len` to a u32.  <<>> stands for the "invalid length" error arm.
DecodeValue(data, len) ==
    CASE len = 8  -> AsU32(data[1])
      [] len = 16 -> AsU32(read_u16(data))
      [] len = 32 -> read_u32(data)
      [] OTHER    -> <<>>

(***************************************************************************)
(* The device, as the handle sees it                                       *)
(***************************************************************************)
Min(a, b) == IF a < b THEN a ELSE b

\* The process image when the program starts.  Bytes 0..1 hold 0x1234.
InitImage == [i \in 1..DevLen |-> IF i = 1 THEN 52 ELSE IF i = 2 THEN 18 ELSE (37 * i) % 256]

\* One read(2) at position pos into a buffer of n bytes: what is there, at most
\* chunk bytes at a time, nothing at or after the end of the device.
DevRead(img, pos, n, chunk) ==
    IF pos >= Len(img) THEN <<>>
    ELSE SubSeq(img, pos + 1, Min(Len(img), pos + Min(n, chunk)))

\* A single read(2) in place of read_exact: whatever one call returns.
read_exact_short(img, pos, n, chunk) ==
    [ok |-> TRUE, bytes |-> DevRead(img, pos, n, chunk)]

\* Read::read_exact: read until the buffer of n bytes is full; a read of no
\* bytes before that is ErrorKind::UnexpectedEof.
RECURSIVE read_exact(_, _, _, _)
read_exact(img, pos, n, chunk) ==
    IF n = 0 THEN [ok |-> TRUE, bytes |-> <<>>]
    ELSE LET got == DevRead(img, pos, n, chunk)
         IN  IF got = <<>> THEN [ok |-> FALSE, bytes |-> <<>>]
             ELSE LET rest == read_exact(img, pos + Len(got), n - Len(got), chunk)
                  IN  [ok |-> rest.ok, bytes |-> got \o rest.bytes]

\* The bytes of data that land in a file at offset off; a device has a fixed
\* size, and what does not fit is not written (fixed = TRUE); a regular file
\* grows, the gap before off reading as zeros.
Overwrite(content, off, data, fixed) ==
    LET end == IF fixed THEN Len(content)
               ELSE IF off + Len(data) > Len(content) THEN off + Len(data) ELSE Len(content)
    IN  [i \in 1..end |->
            IF i > off /\ i <= off + Len(data) THEN data[i - off]
            ELSE IF i <= Len(content) THEN content[i] ELSE 0]

\* Write::write_all at offset off of the device: all of data, or WriteZero
\* once the device takes no more.
write_all(img, off, data) ==
    [ok |-> off + Len(data) <= Len(img), image |-> Overwrite(img, off, data, TRUE)]

(***************************************************************************)
(* State                                                                   *)
(***************************************************************************)
VARIABLES
    alive,            \* a RevPiControl value exists
    handle,           \* RevPiControl.handle: None, or the descriptor it owns
    openFds,          \* the descriptors of the device path that are open
    image,            \* the device's process image
    files,            \* the files dump writes to, by path
    overflow_checks,  \* the build panics on integer overflow (debug) or wraps
    writes,           \* image-changing operations so far
    call,             \* the last operation called, with its arguments
    result,           \* what it returned
    io,               \* the system calls it made
    dump,             \* the state of a dump in progress
    codec,            \* the value codec's inputs and outputs
    module,           \* a module type and what the naming table says of it
    stream            \* redirect_stream on a reader of a given length

vars == <<alive, handle, openFds, image, files, overflow_checks, writes,
          call, result, io, dump, codec, module, stream>>

None == 0

NoCall == [name |-> "none", wasOpen |-> FALSE, fd |-> None, off |-> 0, len |-> 0,
           addr |-> 0, bit |-> 0, val |-> <<>>, data |-> <<>>, var |-> "",
           ret |-> 0, buf |-> <<>>, image |-> <<>>]

Call(name) == [NoCall EXCEPT !.name = name, !.wasOpen = handle # None,
                             !.fd = handle, !.image = image]

Success(data, val) == [status |-> "ok", err |-> "", data |-> data, val |-> val]
Failure(kind) == [status |-> "err", err |-> kind, data |-> <<>>, val |-> <<>>]
Panicked == [status |-> "panic", err |-> "", data |-> <<>>, val |-> <<>>]
Pending == [status |-> "running", err |-> "", data |-> <<>>, val |-> <<>>]
NoResult == [status |-> "none", err |-> "", data |-> <<>>, val |-> <<>>]
True == <<1>>

Sys(name, cmd, a, b) == [sys |-> name, cmd |-> cmd, a |-> a, b |-> b]

NoDump == [active |-> FALSE, fp |-> "", pos |-> 0, outPos |-> 0,
           bufLen |-> 0, copied |-> <<>>]
NoModule == [stage |-> "idle", moduletype |-> 0, active |-> 0, name |-> "",
             connected |-> FALSE, line |-> ""]
NoStream == [stage |-> "idle", remaining |-> 0, bufLen |-> 0, prevLen |-> 0,
             len_read |-> 0, short |-> 0, written |-> 0]
NoCodec == [stage |-> "idle", num |-> <<0, 0, 0, 0>>, size |-> 0,
            bytes |-> <<>>, ok |-> TRUE, value |-> <<>>]

FilePaths == {"fresh.bin", "stale.bin"}
\* What the file system holds at the start: one path with no file (created
\* empty), one with a file longer than the process image.
InitFiles == [p \in FilePaths |->
                 IF p = "fresh.bin" THEN <<>> ELSE [i \in 1..(DevLen + 2) |-> 119]]

InitDevice ==
    /\ alive = TRUE
    /\ handle = None
    /\ openFds = {}
    /\ image = InitImage
    /\ files = InitFiles
    /\ overflow_checks \in BOOLEAN
    /\ writes = 0
    /\ call = NoCall
    /\ result = NoResult
    /\ io = <<>>
    /\ dump = NoDump

Init == InitDevice /\ codec = NoCodec /\ module = NoModule /\ stream = NoStream

\* No call is in progress and the last result has been taken.
Ready == call = NoCall /\ ~dump.active
\* A RevPiControl value exists and an operation can be called on it.
Idle == alive /\ Ready

\* The caller takes the result of the last call.
Return ==
    /\ call # NoCall
    /\ ~dump.active
    /\ call' = NoCall
    /\ result' = NoResult
    /\ io' = <<>>
    /\ dump' = NoDump
    /\ UNCHANGED <<alive, handle, openFds, image, files, overflow_checks, writes,
                   codec, module, stream>>

(***************************************************************************)
(* Lifecycle: new, open, close, drop                                       *)
(***************************************************************************)
\* The lowest descriptor number that is free.
NewFd == CHOOSE fd \in 3..(3 + Cardinality(openFds)) :
            /\ fd \notin openFds
            /\ \A g \in 3..(fd - 1) : g \in openFds

\* RevPiControl::new / new_at
New ==
    /\ ~alive
    /\ Ready
    /\ alive' = TRUE
    /\ handle' = None
    /\ UNCHANGED <<openFds, image, files, overflow_checks, writes, call, result,
                   io, dump, codec, module, stream>>

\* RevPiControl::open; the path opens or does not.
Open ==
    /\ Idle
    /\ call' = Call("open")
    /\ \E opens \in BOOLEAN :
         IF handle # None
         THEN /\ result' = Success(True, <<>>)
              /\ io' = <<>>
              /\ UNCHANGED <<handle, openFds>>
         ELSE IF opens
         THEN /\ handle' = NewFd
              /\ openFds' = openFds \cup {NewFd}
              /\ result' = Success(True, <<>>)
              /\ io' = <<Sys("open", "", NewFd, 0)>>
         ELSE /\ result' = Failure("Other")
              /\ io' = <<Sys("open", "", None, 0)>>
              /\ UNCHANGED <<handle, openFds>>
    /\ UNCHANGED <<alive, image, files, overflow_checks, writes, dump, codec, module, stream>>

\* The File is forgotten without being closed.
DropFile_leak(h, fds) == fds

\* The descriptors open after the File in h (if any) is dropped.
DropFile(h, fds) == fds \ {h}

\* RevPiControl::close: take the handle, drop the File.
Close ==
    /\ Idle
    /\ call' = Call("close")
    /\ handle' = None
    /\ openFds' = DropFile(handle, openFds)
    /\ result' = Success(<<>>, <<>>)
    /\ io' = IF handle # None THEN <<Sys("close", "", handle, 0)>> ELSE <<>>
    /\ UNCHANGED <<alive, image, files, overflow_checks, writes, dump, codec, module, stream>>

\* impl Drop for RevPiControl: close, and the value is gone.
Drop ==
    /\ Idle
    /\ call' = Call("drop")
    /\ alive' = FALSE
    /\ handle' = None
    /\ openFds' = DropFile(handle, openFds)
    /\ result' = Success(<<>>, <<>>)
    /\ io' = IF handle # None THEN <<Sys("close", "", handle, 0)>> ELSE <<>>
    /\ UNCHANGED <<image, files, overflow_checks, writes, dump, codec, module, stream>>

\* What a panic leaves: the stack unwinds, the RevPiControl value is dropped
\* (and its descriptor closed) and the call returns nothing.
Unwind ==
    /\ alive' = FALSE
    /\ handle' = None
    /\ openFds' = DropFile(handle, openFds)

(***************************************************************************)
(* ioctl operations                                                        *)
(***************************************************************************)
\* What an ioctl wrapper of ioctl.rs hands back: Err(errno) when the system
\* call fails, otherwise Ok(the driver's return value).
IoctlErr == [err |-> TRUE, res |-> -1]
IoctlOk(res) == [err |-> FALSE, res |-> res]

\* reset without the check of the handle.
reset_unchecked(h, sc) ==
    [result |-> IF sc.err THEN Failure("errno") ELSE Success(<<sc.res>>, <<>>),
     io |-> <<Sys("ioctl", "reset", 0, 0)>>]

\* RevPiControl::reset
reset(h, sc) ==
    IF h = None THEN [result |-> Failure("ENODEV"), io |-> <<>>]
    ELSE [result |-> IF sc.err THEN Failure("errno") ELSE Success(<<sc.res>>, <<>>),
          io |-> <<Sys("ioctl", "reset", 0, 0)>>]

Reset ==
    /\ Idle
    /\ \E sc \in {IoctlErr, IoctlOk(0)} :
         LET r == reset(handle, sc)
         IN  /\ call' = [Call("reset") EXCEPT !.ret = sc.res]
             /\ result' = r.result
             /\ io' = r.io
    /\ UNCHANGED <<alive, handle, openFds, image, files, overflow_checks, writes,
                   dump, codec, module, stream>>

\* The variables the driver's configuration names: byte address, bit offset
\* and bit length of each.
VarNames == {"flag", "flagHi", "byte", "word", "dword", "nil", "odd", "tri", "quad"}
VarTable ==
    [n \in VarNames |->
        CASE n = "flag"   -> [i16uAddress |-> 1, i8uBit |-> 3, i16uLength |-> 1]
          [] n = "flagHi" -> [i16uAddress |-> 0, i8uBit |-> 11, i16uLength |-> 1]
          [] n = "byte"   -> [i16uAddress |-> 0, i8uBit |-> 0, i16uLength |-> 8]
          [] n = "word"   -> [i16uAddress |-> 0, i8uBit |-> 0, i16uLength |-> 16]
          [] n = "dword"  -> [i16uAddress |-> 1, i8uBit |-> 0, i16uLength |-> 32]
          [] n = "nil"    -> [i16uAddress |-> 2, i8uBit |-> 0, i16uLength |-> 0]
          [] n = "odd"    -> [i16uAddress |-> 1, i8uBit |-> 0, i16uLength |-> 12]
          [] n = "tri"    -> [i16uAddress |-> 1, i8uBit |-> 0, i16uLength |-> 24]
          [] n = "quad"   -> [i16uAddress |-> 0, i8uBit |-> 0, i16uLength |-> 64]]
\* Names a caller may ask for: the configured ones, one the driver does not
\* know, and one of 33 bytes.
AskedNames == VarNames \cup {"missing", "name_of_thirty_three_bytes_______"}
NameLen(n) == IF n = "name_of_thirty_three_bytes_______" THEN 33 ELSE 7
ZeroVariable == [i16uAddress |-> 0, i8uBit |-> 0, i16uLength |-> 0]

\* byte_to_int8_array: split_at_mut panics when the name is longer than the
\* 32-byte field.
NameFits(n) == NameLen(n) <= 32

\* RevPiControl::get_variable_info.  fails: the system call fails whatever
\* the name.
get_variable_info(h, name, fails) ==
    IF h = None THEN [result |-> Failure("ENODEV"), io |-> <<>>, v |-> ZeroVariable]
    ELSE IF ~NameFits(name) THEN [result |-> Panicked, io |-> <<>>, v |-> ZeroVariable]
    ELSE LET known == name \in VarNames /\ ~fails
             v == IF known THEN VarTable[name] ELSE ZeroVariable
         IN  [result |-> IF known
                         THEN Success(<<v.i16uAddress, v.i8uBit, v.i16uLength>>, <<>>)
                         ELSE Failure("errno"),
              io |-> <<Sys("ioctl", "get_variable_info", 0, 0)>>,
              v |-> v]

GetVariableInfo ==
    /\ Idle
    /\ \E name \in AskedNames, fails \in BOOLEAN :
         LET r == get_variable_info(handle, name, fails)
         IN  /\ call' = [Call("get_variable_info") EXCEPT !.var = name]
             /\ result' = r.result
             /\ io' = r.io
             /\ IF r.result.status = "panic"
                THEN Unwind
                ELSE UNCHANGED <<alive, handle, openFds>>
    /\ UNCHANGED <<image, files, overflow_checks, writes, dump, codec, module, stream>>

\* SDeviceInfo: zeroed by Default, and the record the driver writes to slot i.
ZeroDevice == [i8uAddress |-> 0, i16uModuleType |-> 0, i8uActive |-> 0]
DeviceAt(i) == [i8uAddress |-> 30 + i, i16uModuleType |-> 94 + i, i8uActive |-> 1]
\* pDev after the ioctl filled its first `filled` slots.
DeviceBuffer(filled) ==
    [i \in 1..REV_PI_DEV_CNT_MAX |-> IF i <= filled THEN DeviceAt(i) ELSE ZeroDevice]
\* What the ioctl may return.
DevListReturns ==
    {IoctlErr} \cup {IoctlOk(n) : n \in (-2..MaxDevs) \cup
                                       {REV_PI_DEV_CNT_MAX, REV_PI_DEV_CNT_MAX + 1}}

\* pDev[..res as usize]: panics when res is past the end of the array.
SliceTo(buf, res) ==
    IF res > Len(buf) THEN Panicked ELSE Success(SubSeq(buf, 1, res), <<>>)

\* RevPiControl::get_device_info_list
get_device_info_list(h, buf, sc) ==
    IF h = None THEN [result |-> Failure("ENODEV"), io |-> <<>>]
    ELSE [result |-> IF sc.err \/ sc.res < 0 THEN Failure("errno")
                     ELSE SliceTo(buf, sc.res),
          io |-> <<Sys("ioctl", "get_device_info_list", 0, 0)>>]

GetDeviceInfoList ==
    /\ Idle
    /\ \E filled \in 0..MaxDevs, sc \in DevListReturns :
         LET buf == DeviceBuffer(filled)
             r == get_device_info_list(handle, buf, sc)
         IN  /\ call' = [Call("get_device_info_list") EXCEPT
                            !.ret = sc.res, !.val = IF sc.err THEN <<1>> ELSE <<0>>,
                            !.buf = IF handle = None THEN <<>> ELSE buf]
             /\ result' = r.result
             /\ io' = r.io
             /\ IF r.result.status = "panic"
                THEN Unwind
                ELSE UNCHANGED <<alive, handle, openFds>>
    /\ UNCHANGED <<image, files, overflow_checks, writes, dump, codec, module, stream>>

(***************************************************************************)
(* read and write                                                          *)
(***************************************************************************)
\* RevPiControl::read.  fault: the seek or the read fails in the system;
\* chunk: how much one read(2) returns at most.
read(h, img, offset, length, fault, chunk) ==
    IF h = None THEN [result |-> Failure("NotFound"), io |-> <<>>]
    ELSE IF fault = "seek"
    THEN [result |-> Failure("io"), io |-> <<Sys("seek", "", offset, 0)>>]
    ELSE IF fault = "io"
    THEN [result |-> Failure("io"),
          io |-> <<Sys("seek", "", offset, 0), Sys("read", "", offset, length)>>]
    ELSE LET r == read_exact(img, offset, length, chunk)
         IN  [result |-> IF r.ok THEN Success(r.bytes, <<>>)
                         ELSE Failure("UnexpectedEof"),
              io |-> <<Sys("seek", "", offset, 0), Sys("read", "", offset, length)>>]

ReadOffsets == {0, 1, DevLen - 1, DevLen, DevLen + 1}
ReadLengths == {0, 1, 2, 4}
IoFaults == {"none", "seek", "io"}

Read ==
    /\ Idle
    /\ \E offset \in ReadOffsets, length \in ReadLengths, fault \in IoFaults,
          chunk \in 1..MaxChunk :
         LET r == read(handle, image, offset, length, fault, chunk)
         IN  /\ call' = [Call("read") EXCEPT !.off = offset, !.len = length]
             /\ result' = r.result
             /\ io' = r.io
    /\ UNCHANGED <<alive, handle, openFds, image, files, overflow_checks, writes,
                   dump, codec, module, stream>>

\* RevPiControl::write
write(h, img, offset, data, fault) ==
    IF h = None THEN [result |-> Failure("NotFound"), io |-> <<>>, image |-> img]
    ELSE IF fault = "seek"
    THEN [result |-> Failure("io"), io |-> <<Sys("seek", "", offset, 0)>>, image |-> img]
    ELSE IF fault = "io"
    THEN [result |-> Failure("io"),
          io |-> <<Sys("seek", "", offset, 0), Sys("write", "", offset, Len(data))>>,
          image |-> img]
    ELSE LET w == write_all(img, offset, data)
         IN  [result |-> IF w.ok THEN Success(True, <<>>) ELSE Failure("WriteZero"),
              io |-> <<Sys("seek", "", offset, 0), Sys("write", "", offset, Len(data))>>,
              image |-> w.image]

WriteOffsets == {0, DevLen - 1, DevLen}
WriteData == {<<>>, <<171>>, <<205, 239>>}

\* An operation that may change the image or a file is within the budget.
MayChange == handle = None \/ writes < MaxWrites
Spend == IF handle = None THEN writes ELSE writes + 1

Write ==
    /\ Idle
    /\ MayChange
    /\ \E offset \in WriteOffsets, data \in WriteData, fault \in IoFaults :
         LET r == write(handle, image, offset, data, fault)
         IN  /\ call' = [Call("write") EXCEPT !.off = offset, !.data = data]
             /\ result' = r.result
             /\ io' = r.io
             /\ image' = r.image
    /\ writes' = Spend
    /\ UNCHANGED <<alive, handle, openFds, files, overflow_checks, dump, codec, module, stream>>

(***************************************************************************)
(* Bit values                                                              *)
(***************************************************************************)
BitOf(byte, k) == (byte \div Pow2(k)) % 2
WithBit(byte, k, v) ==
    byte - BitOf(byte, k) * Pow2(k) + (IF v # 0 THEN Pow2(k) ELSE 0)

\* pSpiValue.i16uAddress += (pSpiValue.i8uBit as u16) / 8: a u16 addition,
\* which panics on overflow in a build with overflow checks and wraps in one
\* without.
AddU16(a, b, checks) ==
    IF a + b < Pow2(16) THEN [panic |-> FALSE, sum |-> a + b]
    ELSE IF checks THEN [panic |-> TRUE, sum |-> 0]
    ELSE [panic |-> FALSE, sum |-> (a + b) % Pow2(16)]

\* The driver's get-bit and set-bit ioctls on the descriptor it is handed.
BitIoctl(cmd, img, addr, bit, value, fails) ==
    IF fails \/ addr >= Len(img) THEN [ok |-> FALSE, value |-> value, image |-> img]
    ELSE IF cmd = "get_bit_value"
    THEN [ok |-> TRUE, value |-> BitOf(img[addr + 1], bit), image |-> img]
    ELSE [ok |-> TRUE, value |-> value,
          image |-> [img EXCEPT ![addr + 1] = WithBit(img[addr + 1], bit, value)]]

\* RevPiControl::handle_bit_value, with func the ioctl named cmd.  spi is the
\* caller's SPIValue as the call leaves it.
handle_bit_value(h, img, spi, cmd, checks, fails) ==
    IF h = None
    THEN [result |-> Failure("ENODEV"), io |-> <<>>, image |-> img, spi |-> spi]
    ELSE LET s == AddU16(spi.i16uAddress, spi.i8uBit \div 8, checks)
         IN  IF s.panic
             THEN [result |-> Panicked, io |-> <<>>, image |-> img, spi |-> spi]
             ELSE LET bit == spi.i8uBit % 8
                      d == BitIoctl(cmd, img, s.sum, bit, spi.i8uValue, fails)
                      out == [i16uAddress |-> s.sum, i8uBit |-> bit,
                              i8uValue |-> d.value]
                  IN  [result |-> IF d.ok
                                  THEN Success(True, <<out.i16uAddress, out.i8uBit,
                                                       out.i8uValue>>)
                                  ELSE Failure("errno"),
                       io |-> <<Sys("ioctl", cmd, s.sum, bit)>>,
                       image |-> d.image,
                       spi |-> out]

BitAddresses == {0, 1, DevLen - 1, 65535}
BitIndexes == {0, 3, 7, 8, 11, 255}
SPIValueOf(a, b, v) == [i16uAddress |-> a, i8uBit |-> b, i8uValue |-> v]

\* RevPiControl::get_bit_value
GetBitValue ==
    /\ Idle
    /\ \E a \in BitAddresses, b \in BitIndexes, fails \in BOOLEAN :
         LET r == handle_bit_value(handle, image, SPIValueOf(a, b, 0),
                                   "get_bit_value", overflow_checks, fails)
         IN  /\ call' = [Call("get_bit_value") EXCEPT !.addr = a, !.bit = b]
             /\ result' = r.result
             /\ io' = r.io
             /\ IF r.result.status = "panic"
                THEN Unwind
                ELSE UNCHANGED <<alive, handle, openFds>>
    /\ UNCHANGED <<image, files, overflow_checks, writes, dump, codec, module, stream>>

\* RevPiControl::set_bit_value
SetBitValue ==
    /\ Idle
    /\ MayChange
    /\ \E a \in BitAddresses, b \in BitIndexes, v \in {0, 1}, fails \in BOOLEAN :
         LET r == handle_bit_value(handle, image, SPIValueOf(a, b, v),
                                   "set_bit_value", overflow_checks, fails)
         IN  /\ call' = [Call("set_bit_value") EXCEPT !.addr = a, !.bit = b,
                                                      !.val = <<v>>]
             /\ result' = r.result
             /\ io' = r.io
             /\ image' = r.image
             /\ IF r.result.status = "panic"
                THEN Unwind
                ELSE UNCHANGED <<alive, handle, openFds>>
    /\ writes' = Spend
    /\ UNCHANGED <<files, overflow_checks, dump, codec, module, stream>>

(***************************************************************************)
(* pitestrs: read_variable_value and write_variable_value                  *)
(***************************************************************************)
\* let remainder = i16uLength % 8; if remainder != 0 { return Err(..) }
ByteAligned(len) == len % 8 = 0
\* The match on i16uLength taking every byte-aligned length.
ReadableLength_any(len) == TRUE

\* The arm `8 | 16 | 32` of the match on i16uLength.
ReadableLength(len) == len \in {8, 16, 32}

Formats == {"d", "h", "b"}

\* `?` on a library call that did not return Ok: the error (or the panic)
\* is the function's own outcome.
Propagate(r, ioSoFar, img) ==
    [result |-> [r.result EXCEPT !.data = <<>>, !.val = <<>>],
     io |-> ioSoFar \o r.io, image |-> img]

\* read_variable_value(picontrol, name, format, false).  On success data is
\* what is printed as bytes and val the decoded u32 (for a bit, its value).
read_variable_value(h, img, name, format, checks, fault, chunk) ==
    LET info == get_variable_info(h, name, fault = "ioctl")
        v == info.v
    IN  IF info.result.status # "ok" THEN Propagate(info, <<>>, img)
        ELSE IF v.i16uLength = 1
        THEN LET b == handle_bit_value(h, img,
                          SPIValueOf(v.i16uAddress, v.i8uBit, 0),
                          "get_bit_value", checks, fault = "io")
             IN  IF b.result.status # "ok" THEN Propagate(b, info.io, img)
                 ELSE [result |-> Success(<<>>, <<b.spi.i8uValue>>),
                       io |-> info.io \o b.io, image |-> img]
        ELSE IF ~ByteAligned(v.i16uLength)
        THEN [result |-> Failure("InternalError"), io |-> info.io, image |-> img]
        ELSE IF ReadableLength(v.i16uLength)
        THEN LET rd == read(h, img, v.i16uAddress, v.i16uLength \div 8, fault, chunk)
             IN  IF rd.result.status # "ok" THEN Propagate(rd, info.io, img)
                 ELSE LET u32_value == DecodeValue(rd.result.data, v.i16uLength)
                      IN  IF u32_value = <<>>
                          THEN [result |-> Failure("InternalError"),
                                io |-> info.io \o rd.io, image |-> img]
                          ELSE [result |->
                                   Success(IF format = "b"
                                           THEN num_to_bytes(U32AsU64(u32_value), 32).bytes
                                           ELSE rd.result.data,
                                           u32_value),
                                io |-> info.io \o rd.io, image |-> img]
        ELSE [result |-> Failure("InvalidByteSize"), io |-> info.io, image |-> img]

VarFaults == {"none", "ioctl", "seek", "io"}

ReadVariableValue ==
    /\ Idle
    /\ \E name \in AskedNames, format \in Formats, fault \in VarFaults,
          chunk \in 1..MaxChunk :
         LET r == read_variable_value(handle, image, name, format, overflow_checks,
                                      fault, chunk)
         IN  /\ call' = [Call("read_variable_value") EXCEPT
                            !.var = name,
                            !.len = IF name \in VarNames
                                    THEN VarTable[name].i16uLength ELSE 0,
                            !.addr = IF name \in VarNames
                                     THEN VarTable[name].i16uAddress ELSE 0]
             /\ result' = r.result
             /\ io' = r.io
             /\ IF r.result.status = "panic"
                THEN Unwind
                ELSE UNCHANGED <<alive, handle, openFds>>
    /\ UNCHANGED <<image, files, overflow_checks, writes, dump, codec, module, stream>>

\* The width write_variable_value encodes at, whatever the variable's length.
WriteWidth(len) == 32

\* write_variable_value(picontrol, name, i32u_value)
write_variable_value(h, img, name, value, checks, fault) ==
    LET info == get_variable_info(h, name, fault = "ioctl")
        v == info.v
    IN  IF info.result.status # "ok" THEN Propagate(info, <<>>, img)
        ELSE IF v.i16uLength = 1
        THEN LET b == handle_bit_value(h, img,
                          SPIValueOf(v.i16uAddress, v.i8uBit,
                                     U64AsU8(U32AsU64(value))),
                          "set_bit_value", checks, fault = "io")
             IN  IF b.result.status # "ok" THEN Propagate(b, info.io, b.image)
                 ELSE [result |-> Success(True, <<>>), io |-> info.io \o b.io,
                       image |-> b.image]
        ELSE LET bn == num_to_bytes(U32AsU64(value), WriteWidth(v.i16uLength))
             IN  IF ~bn.ok
                 THEN [result |-> Failure("InvalidSize"), io |-> info.io,
                       image |-> img]
                 ELSE LET w == write(h, img, v.i16uAddress, bn.bytes, fault)
                      IN  IF w.result.status # "ok" THEN Propagate(w, info.io, w.image)
                          ELSE [result |-> Success(True, <<>>),
                                io |-> info.io \o w.io, image |-> w.image]

\* 0, 1, 256, 0x1234 and 0xA1B2C3D4 as u32
WriteValues == {<<0, 0>>, <<1, 0>>, <<256, 0>>, <<4660, 0>>, <<50132, 41394>>}

WriteVariableValue ==
    /\ Idle
    /\ MayChange
    /\ \E name \in AskedNames, value \in WriteValues, fault \in VarFaults :
         LET r == write_variable_value(handle, image, name, value, overflow_checks,
                                       fault)
         IN  /\ call' = [Call("write_variable_value") EXCEPT
                            !.var = name, !.val = value,
                            !.len = IF name \in VarNames
                                    THEN VarTable[name].i16uLength ELSE 0,
                            !.addr = IF name \in VarNames
                                     THEN VarTable[name].i16uAddress ELSE 0]
             /\ result' = r.result
             /\ io' = r.io
             /\ image' = r.image
             /\ IF r.result.status = "panic"
                THEN Unwind
                ELSE UNCHANGED <<alive, handle, openFds>>
    /\ writes' = Spend
    /\ UNCHANGED <<files, overflow_checks, dump, codec, module, stream>>

(***************************************************************************)
(* dump                                                                    *)
(***************************************************************************)
DumpFaults == {"none", "seek", "open"}

\* RevPiControl::dump up to the call of redirect_stream: the handle, the seek
\* to 0, the destination opened read+write+create, the buffer.
Dump ==
    /\ Idle
    /\ MayChange
    /\ \E fp \in FilePaths, fault \in DumpFaults :
         /\ call' = [Call("dump") EXCEPT !.var = fp, !.data = files[fp]]
         /\ IF handle = None
            THEN /\ result' = Failure("NotFound")
                 /\ io' = <<>>
                 /\ dump' = NoDump
            ELSE IF fault = "seek"
            THEN /\ result' = Failure("io")
                 /\ io' = <<Sys("seek", "", 0, 0)>>
                 /\ dump' = NoDump
            ELSE IF fault = "open"
            THEN /\ result' = Failure("io")
                 /\ io' = <<Sys("seek", "", 0, 0), Sys("open", fp, 0, 0)>>
                 /\ dump' = NoDump
            ELSE /\ result' = Pending
                 /\ io' = <<Sys("seek", "", 0, 0), Sys("open", fp, 0, 0)>>
                 /\ dump' = [active |-> TRUE, fp |-> fp, pos |-> 0, outPos |-> 0,
                             bufLen |-> SMALL_BUFFER_SIZE, copied |-> <<>>]
    /\ writes' = Spend
    /\ UNCHANGED <<alive, handle, openFds, image, files, overflow_checks, codec, module, stream>>

\* The buffer grown after every full read, whatever its length.
GrowBuffer_nocap(bufLen, len_read) ==
    IF len_read = bufLen THEN bufLen + len_read ELSE bufLen

\* buffer.len() after an iteration that read len_read bytes.
GrowBuffer(bufLen, len_read) ==
    IF len_read = bufLen /\ len_read < LARGE_BUFFER_SIZE
    THEN bufLen + len_read
    ELSE bufLen

StepFaults == {"none", "read", "write"}

\* One iteration of the loop of redirect_stream.
DumpStep ==
    /\ dump.active
    /\ \E chunk \in 1..MaxChunk, fault \in StepFaults :
         LET got == DevRead(image, dump.pos, dump.bufLen, chunk)
             len_read == Len(got)
         IN  IF fault = "read"
             THEN /\ result' = Failure("io")
                  /\ io' = Append(io, Sys("read", "", dump.pos, dump.bufLen))
                  /\ dump' = [dump EXCEPT !.active = FALSE]
                  /\ UNCHANGED files
             ELSE IF len_read = 0
             THEN /\ result' = Success(True, <<>>)
                  /\ io' = Append(io, Sys("read", "", dump.pos, dump.bufLen))
                  /\ dump' = [dump EXCEPT !.active = FALSE]
                  /\ UNCHANGED files
             ELSE IF fault = "write"
             THEN /\ result' = Failure("io")
                  /\ io' = io \o <<Sys("read", "", dump.pos, dump.bufLen),
                                   Sys("write", dump.fp, dump.outPos, len_read)>>
                  /\ dump' = [dump EXCEPT !.active = FALSE,
                                          !.pos = dump.pos + len_read,
                                          !.copied = dump.copied \o got]
                  /\ UNCHANGED files
             ELSE /\ result' = Pending
                  /\ io' = io \o <<Sys("read", "", dump.pos, dump.bufLen),
                                   Sys("write", dump.fp, dump.outPos, len_read)>>
                  /\ files' = [files EXCEPT ![dump.fp] =
                                  Overwrite(files[dump.fp], dump.outPos, got, FALSE)]
                  /\ dump' = [dump EXCEPT !.pos = dump.pos + len_read,
                                          !.outPos = dump.outPos + len_read,
                                          !.copied = dump.copied \o got,
                                          !.bufLen = GrowBuffer(dump.bufLen, len_read)]
    /\ UNCHANGED <<alive, handle, openFds, image, overflow_checks, writes, call,
                   codec, module, stream>>

Next ==
    \/ Return
    \/ New
    \/ Open
    \/ Close
    \/ Drop
    \/ Reset
    \/ GetVariableInfo
    \/ GetDeviceInfoList
    \/ Read
    \/ Write
    \/ GetBitValue
    \/ SetBitValue
    \/ ReadVariableValue
    \/ WriteVariableValue
    \/ Dump
    \/ DumpStep

Spec == Init /\ [][Next]_vars

(***************************************************************************)
(* The value codec on its own: num_to_bytes, then the decode of            *)
(* read_variable_value on the bytes it produced.                           *)
(***************************************************************************)
CodecValues ==
    {<<a, b, c, d>> : a \in {0, 1, 255, 256, 4660, 65535}, b \in {0, 1, 41394},
                      c \in {0, 1}, d \in {0, 32768}}
CodecSizes == {0, 8, 16, 24, 32, 64}

InitCodec ==
    /\ InitDevice
    /\ codec \in {[NoCodec EXCEPT !.stage = "input", !.num = n, !.size = w] :
                     n \in CodecValues, w \in CodecSizes}
    /\ module = NoModule
    /\ stream = NoStream

Encode ==
    /\ codec.stage = "input"
    /\ LET bn == num_to_bytes(codec.num, codec.size)
       IN  codec' = [codec EXCEPT !.stage = "encoded", !.ok = bn.ok,
                                  !.bytes = bn.bytes]
    /\ UNCHANGED <<alive, handle, openFds, image, files, overflow_checks, writes,
                   call, result, io, dump, module, stream>>

Decode ==
    /\ codec.stage = "encoded"
    /\ codec.ok
    /\ codec' = [codec EXCEPT !.stage = "decoded",
                              !.value = DecodeValue(codec.bytes, codec.size)]
    /\ UNCHANGED <<alive, handle, openFds, image, files, overflow_checks, writes,
                   call, result, io, dump, module, stream>>

NextCodec ==
    \/ Encode
    \/ Decode

SpecCodec == InitCodec /\ [][NextCodec]_vars

(***************************************************************************)
(* The module naming table: get_module_name, is_module_connected and the   *)
(* presence line of show_device_list.                                      *)
(***************************************************************************)
\* picontrol::PICONTROL_NOT_CONNECTED and PICONTROL_NOT_CONNECTED_MASK, from
\* the bindings of piControl.h: the flag bit and the bits of the type code.
PICONTROL_NOT_CONNECTED == 32768
PICONTROL_NOT_CONNECTED_MASK == 32767
\* picontrol::PICONTROL_SW_MODBUS_*, from the same bindings.
PICONTROL_SW_MODBUS_TCP_SLAVE == 24577
PICONTROL_SW_MODBUS_RTU_SLAVE == 24578
PICONTROL_SW_MODBUS_TCP_MASTER == 24579
PICONTROL_SW_MODBUS_RTU_MASTER == 24580

\* a & b on unsigned integers
RECURSIVE BitAnd(_, _)
BitAnd(a, b) ==
    IF a = 0 \/ b = 0 THEN 0
    ELSE (a % 2) * (b % 2) + 2 * BitAnd(a \div 2, b \div 2)

\* get_module_name(moduletype)
get_module_name(moduletype) ==
    LET t == BitAnd(moduletype, PICONTROL_NOT_CONNECTED_MASK)
    IN  CASE t = 95  -> "RevPi Core"
          [] t = 96  -> "RevPi DIO"
          [] t = 97  -> "RevPi DI"
          [] t = 98  -> "RevPi DO"
          [] t = 103 -> "RevPi AIO"
          [] t = PICONTROL_SW_MODBUS_TCP_SLAVE  -> "ModbusTCP Slave Adapter"
          [] t = PICONTROL_SW_MODBUS_RTU_SLAVE  -> "ModbusRTU Slave Adapter"
          [] t = PICONTROL_SW_MODBUS_TCP_MASTER -> "ModbusTCP Master Adapter"
          [] t = PICONTROL_SW_MODBUS_RTU_MASTER -> "ModbusRTU Master Adapter"
          [] t = 100 -> "Gateway DMX"
          [] t = 71  -> "Gateway CANopen"
          [] t = 73  -> "Gateway DeviceNet"
          [] t = 74  -> "Gateway EtherCAT"
          [] t = 75  -> "Gateway EtherNet/IP"
          [] t = 93  -> "Gateway ModbusTCP"
          [] t = 76  -> "Gateway Powerlink"
          [] t = 77  -> "Gateway Profibus"
          [] t = 79  -> "Gateway Profinet IRT"
          [] t = 81  -> "Gateway SercosIII"
          [] OTHER   -> "unknown moduletype"

\* is_module_connected(moduletype): moduletype & PICONTROL_NOT_CONNECTED > 0,
\* which Rust reads as (moduletype & PICONTROL_NOT_CONNECTED) > 0.
is_module_connected(moduletype) ==
    BitAnd(moduletype, PICONTROL_NOT_CONNECTED) > 0

\* The line show_device_list prints on a device's presence.
PresenceLine(active, moduletype) ==
    IF active > 0 THEN "Module is present"
    ELSE IF is_module_connected(moduletype)
    THEN "Module is NOT present, data is NOT available!!!"
    ELSE "Module is present, but NOT CONFIGURED!!!"

\* Type codes with a label, some without, each with the flag bit clear and
\* set, and some with bits above the 16 of i16uModuleType.
TypeCodes == {0, 1, 71, 81, 93, 95, 96, 97, 98, 100, 103, 24577, 24580, 32767}
ModuleTypes ==
    TypeCodes \cup {t + PICONTROL_NOT_CONNECTED : t \in TypeCodes}
              \cup {96 + 65536, 96 + 65536 + PICONTROL_NOT_CONNECTED}

InitModule ==
    /\ InitDevice
    /\ codec = NoCodec
    /\ stream = NoStream
    /\ module \in {[NoModule EXCEPT !.stage = "input", !.moduletype = t,
                                    !.active = a] :
                      t \in ModuleTypes, a \in {0, 1}}

device == <<alive, handle, openFds, image, files, overflow_checks, writes,
            call, result, io, dump>>

GetModuleName ==
    /\ module.stage = "input"
    /\ module' = [module EXCEPT !.stage = "named",
                                !.name = get_module_name(module.moduletype)]
    /\ UNCHANGED <<device, codec, stream>>

IsModuleConnected ==
    /\ module.stage = "named"
    /\ module' = [module EXCEPT !.stage = "checked",
                                !.connected = is_module_connected(module.moduletype)]
    /\ UNCHANGED <<device, codec, stream>>

ShowDevice ==
    /\ module.stage = "checked"
    /\ module' = [module EXCEPT !.stage = "shown",
                                !.line = PresenceLine(module.active,
                                                      module.moduletype)]
    /\ UNCHANGED <<device, codec, stream>>

NextModule ==
    \/ GetModuleName
    \/ IsModuleConnected
    \/ ShowDevice

SpecModule == InitModule /\ [][NextModule]_vars

(***************************************************************************)
(* redirect_stream on its own: the copy loop on a reader that holds        *)
(* `remaining` bytes, followed by its lengths only.  prevLen is            *)
(* buffer.len() before the last iteration, len_read what that iteration    *)
(* read.                                                                   *)
(***************************************************************************)
\* Lengths of the reader: empty, shorter than the first buffer, just
\* filling it, and long enough to take the buffer to the cap and past it.
StreamLengths == {0, 100, 256, 700, 65290, 196352, 270000}

InitStream ==
    /\ InitDevice
    /\ codec = NoCodec
    /\ module = NoModule
    /\ stream \in {[NoStream EXCEPT !.stage = "input", !.remaining = n] :
                      n \in StreamLengths}

\* dump: let buffer = &mut vec![0; SMALL_BUFFER_SIZE]; redirect_stream(..)
StreamBegin ==
    /\ stream.stage = "input"
    /\ stream' = [stream EXCEPT !.stage = "copying",
                                !.bufLen = SMALL_BUFFER_SIZE,
                                !.prevLen = SMALL_BUFFER_SIZE]
    /\ UNCHANGED <<device, codec, module>>

\* What reader.read(buffer) may return: all there is room for, or, a
\* bounded number of times, half of it; nothing at the end of the reader.
ReadLens(bufLen, remaining, short) ==
    LET full == Min(bufLen, remaining)
    IN  {full} \cup (IF short < MaxShort /\ full > 1 THEN {full \div 2} ELSE {})

\* One iteration of the loop of redirect_stream.
StreamStep ==
    /\ stream.stage = "copying"
    /\ \E fault \in StepFaults,
          n \in ReadLens(stream.bufLen, stream.remaining, stream.short) :
         IF fault = "read"
         THEN stream' = [stream EXCEPT !.stage = "failed", !.len_read = 0,
                                       !.prevLen = stream.bufLen]
         ELSE IF n = 0
         THEN stream' = [stream EXCEPT !.stage = "done", !.len_read = 0,
                                       !.prevLen = stream.bufLen]
         ELSE IF fault = "write"
         THEN stream' = [stream EXCEPT !.stage = "failed", !.len_read = n,
                                       !.prevLen = stream.bufLen,
                                       !.remaining = stream.remaining - n]
         ELSE stream' = [stream EXCEPT
                            !.len_read = n,
                            !.prevLen = stream.bufLen,
                            !.bufLen = GrowBuffer(stream.bufLen, n),
                            !.remaining = stream.remaining - n,
                            !.written = stream.written + n,
                            !.short = IF n < Min(stream.bufLen, stream.remaining)
                                      THEN stream.short + 1 ELSE stream.short]
    /\ UNCHANGED <<device, codec, module>>

NextStream ==
    \/ StreamBegin
    \/ StreamStep

SpecStream == InitStream /\ [][NextStream]_vars

(***************************************************************************)
(* Properties                                                              *)
(***************************************************************************)
HandleOps == {"reset", "read", "write", "get_variable_info",
              "get_device_info_list", "get_bit_value", "set_bit_value", "dump"}

\* C1: on a handle that holds no open descriptor, each of reset, read, write,
\* get_variable_info, get_device_info_list, get_bit_value, set_bit_value and
\* dump returns the no-descriptor error (ENODEV from the ioctl operations,
\* NotFound from read, write and dump) and makes no system call: nothing is
\* sought, read, written or opened, and the image and the files are as before.
C1_UnopenedFails ==
    (call.name \in HandleOps /\ ~call.wasOpen) =>
        /\ result.status = "err"
        /\ result.err = IF call.name \in {"read", "write", "dump"}
                        THEN "NotFound" ELSE "ENODEV"
        /\ result.data = <<>>
        /\ io = <<>>
        /\ image = call.image
        /\ call.name = "dump" => (files[call.var] = call.data /\ ~dump.active)
        /\ handle = None
        /\ openFds = {}

\* An operation called on a handle that was open earlier (it has changed the
\* image or a file) and is closed now.
C1_Witness ==
    /\ call.name = "set_bit_value"
    /\ ~call.wasOpen
    /\ writes > 0
    /\ result.err = "ENODEV"

\* v mod 2^w of a u64 v, for w in {8, 16, 32}
ModPow2(num, w) ==
    CASE w = 8  -> <<num[1] % 256, 0, 0, 0>>
      [] w = 16 -> <<num[1], 0, 0, 0>>
      [] w = 32 -> <<num[1], num[2], 0, 0>>
\* v < 2^w
Below(num, w) == ModPow2(num, w) = num

\* C2: for w in {8, 16, 32} and every u64 v, the little-endian decode of
\* read_variable_value for bit length w, applied to the w/8 bytes of
\* num_to_bytes(v, w), gives v mod 2^w, and v itself when v < 2^w.
C2_RoundTrip ==
    (codec.stage = "decoded" /\ codec.size \in {8, 16, 32}) =>
        /\ Len(codec.bytes) = codec.size \div 8
        /\ U32AsU64(codec.value) = ModPow2(codec.num, codec.size)
        /\ Below(codec.num, codec.size) => U32AsU64(codec.value) = codec.num

\* A value of more than 16 bits with different low bytes, encoded at width 16
\* and decoded again.
C2_Witness ==
    /\ codec.stage = "decoded"
    /\ codec.size = 16
    /\ codec.num = <<4660, 41394, 1, 0>>
    /\ codec.value = <<4660, 0>>

\* C3: write_variable_value on a variable of bit length w in {8, 16, 32} at
\* byte address a writes the value encoded at width w, exactly w/8 bytes, to
\* [a, a + w/8), and no byte of the image outside that range changes.
C3_WriteExactWidth ==
    (/\ call.name = "write_variable_value"
     /\ call.wasOpen
     /\ call.len \in {8, 16, 32}
     /\ result.status = "ok") =>
        /\ \E i \in 1..Len(io) :
              io[i] = Sys("write", "", call.addr, call.len \div 8)
        /\ SubSeq(image, call.addr + 1, call.addr + call.len \div 8)
              = num_to_bytes(U32AsU64(call.val), call.len).bytes
        /\ \A i \in 1..Len(image) :
              (i <= call.addr \/ i > call.addr + call.len \div 8)
                  => image[i] = call.image[i]

SupportedLengths == {1, 8, 16, 32}
\* The call was for a variable the driver reported, with this bit length.
Reported(name) ==
    /\ call.name = name
    /\ call.wasOpen
    /\ call.var \in VarNames
    /\ \E i \in 1..Len(io) : io[i].cmd = "get_variable_info"
    /\ result.err # "errno"

\* C4: read_variable_value on a variable whose reported bit length is not 1,
\* 8, 16 or 32 returns an error, reads nothing from the process image, calls
\* no bit-value ioctl and decodes no value.
C4_UnsupportedReadFails ==
    (Reported("read_variable_value") /\ call.len \notin SupportedLengths) =>
        /\ result.status = "err"
        /\ result.val = <<>>
        /\ result.data = <<>>
        /\ io = <<Sys("ioctl", "get_variable_info", 0, 0)>>

\* A read of the variable of bit length 24.
C4_Witness ==
    /\ Reported("read_variable_value")
    /\ call.len = 24
    /\ result.err = "InvalidByteSize"

\* C5: write_variable_value on a variable whose reported bit length is not 1,
\* 8, 16 or 32 returns an error and leaves the process image as it was: no
\* write and no set-bit ioctl is made.
C5_UnsupportedWriteFails ==
    (Reported("write_variable_value") /\ call.len \notin SupportedLengths) =>
        /\ result.status = "err"
        /\ image = call.image
        /\ io = <<Sys("ioctl", "get_variable_info", 0, 0)>>

\* C6: on an open handle, whatever count N >= 0 the get-device-info-list
\* ioctl returns, get_device_info_list returns (it does not abort) exactly
\* the first N records of the buffer, in order; when the ioctl fails or
\* returns a negative number it returns an error and no records.
C6_DeviceListCount ==
    (call.name = "get_device_info_list" /\ call.wasOpen) =>
        IF call.val = <<0>> /\ call.ret >= 0
        THEN /\ result.status = "ok"
             /\ Len(result.data) = call.ret
             /\ \A i \in 1..call.ret : result.data[i] = call.buf[i]
        ELSE /\ result.status = "err"
             /\ result.data = <<>>

\* C7: on an open handle, get_bit_value and set_bit_value with address a and
\* bit index b hand the ioctl the address a + b/8 (not wrapped, and without
\* aborting) and the bit index b mod 8, which is in 0..7; both do the same.
C7_BitNormalization ==
    (call.name \in {"get_bit_value", "set_bit_value"} /\ call.wasOpen) =>
        /\ result.status # "panic"
        /\ io = <<Sys("ioctl", call.name, call.addr + call.bit \div 8,
                      call.bit % 8)>>
        /\ io[1].b \in 0..7

\* C8: the handle owns at most one open descriptor, and the descriptors open
\* are exactly the one it holds; open on an open handle succeeds without
\* opening the path and keeps the descriptor; a failed open leaves the
\* handle unopened; close on an unopened handle does nothing; after close or
\* drop no descriptor is open.
C8_SingleDescriptor ==
    /\ Cardinality(openFds) <= 1
    /\ openFds = IF handle = None THEN {} ELSE {handle}
    /\ ~alive => handle = None
    /\ (call.name = "open" /\ call.wasOpen) =>
          (result.status = "ok" /\ io = <<>> /\ handle = call.fd)
    /\ (call.name = "open" /\ ~call.wasOpen /\ result.status = "ok") =>
          (handle # None /\ io = <<Sys("open", "", handle, 0)>>)
    /\ (call.name = "open" /\ result.status = "err") => handle = None
    /\ (call.name = "close" /\ ~call.wasOpen) => io = <<>>
    /\ call.name \in {"close", "drop"} => (handle = None /\ openFds = {})

\* open called on a handle that is already open.
C8_Witness ==
    /\ call.name = "open"
    /\ call.wasOpen
    /\ result.status = "ok"
    /\ openFds = {handle}
    /\ writes > 0

\* What read returned is exactly the `len` bytes of the device at `off`.
ReadIsExact ==
    /\ Len(result.data) = call.len
    /\ \A i \in 1..call.len :
          call.off + i <= Len(image) /\ result.data[i] = image[call.off + i]

\* C9 as stated: read(offset, length) on an open handle returns exactly
\* `length` bytes equal to the device at [offset, offset + length) or an
\* error, and an error whenever the device holds fewer than offset + length
\* bytes.
C9_ReadExactOrError ==
    (call.name = "read" /\ call.wasOpen) =>
        /\ result.status \in {"ok", "err"}
        /\ result.status = "ok" => ReadIsExact
        /\ result.status = "err" => result.data = <<>>
        /\ call.off + call.len > Len(image) => result.status = "err"

\* C9, amended: read(offset, length) on an open handle returns exactly
\* `length` bytes equal to the device at [offset, offset + length) or an
\* error; for length > 0 it returns an error whenever the device holds fewer
\* than offset + length bytes, never a shorter or padded buffer.
C9_ReadExactOrErrorNonEmpty ==
    (call.name = "read" /\ call.wasOpen) =>
        /\ result.status \in {"ok", "err"}
        /\ result.status = "ok" => ReadIsExact
        /\ result.status = "err" => result.data = <<>>
        /\ (call.len > 0 /\ call.off + call.len > Len(image))
              => result.status = "err"

\* A read that starts inside the device and ends past its end.
C9_Witness ==
    /\ call.name = "read"
    /\ call.wasOpen
    /\ call.off = DevLen - 1
    /\ call.len = 2
    /\ result.err = "UnexpectedEof"

\* C10: when dump(fp) on an open handle returns success, the file fp holds
\* exactly the bytes read from the process image from offset 0 up to the
\* first read of no bytes, in order and nothing else, whatever it held
\* before.
C10_DumpExactCopy ==
    (call.name = "dump" /\ call.wasOpen /\ ~dump.active /\ result.status = "ok") =>
        /\ dump.copied = image
        /\ files[call.var] = dump.copied

\* C11: is_module_connected(moduletype) is true exactly when the module type
\* is marked connected, that is when the PICONTROL_NOT_CONNECTED bit of
\* moduletype is clear, and false when the bit is set.
C11_ConnectedWhenFlagClear ==
    module.stage \in {"checked", "shown"} =>
        (module.connected
            <=> BitAnd(module.moduletype, PICONTROL_NOT_CONNECTED) = 0)

\* C12: in the copy loop of dump, which starts with a buffer of 256 bytes,
\* the buffer never shrinks; it grows only after a read that filled it while
\* it was shorter than the cap of 64 KiB, and then by the number of bytes
\* just read; it is never longer than the cap, and once at the cap it stays
\* there.
C12_BufferGrowth ==
    stream.stage \in {"copying", "done", "failed"} =>
        /\ stream.prevLen >= SMALL_BUFFER_SIZE
        /\ stream.bufLen >= stream.prevLen
        /\ stream.bufLen <= LARGE_BUFFER_SIZE
        /\ stream.bufLen # stream.prevLen =>
              /\ stream.len_read = stream.prevLen
              /\ stream.prevLen < LARGE_BUFFER_SIZE
              /\ stream.bufLen = stream.prevLen + stream.len_read
        /\ stream.prevLen = LARGE_BUFFER_SIZE => stream.bufLen = LARGE_BUFFER_SIZE

\* A read that fills the buffer once it is at the cap: the buffer has grown
\* all the way from 256 bytes and does not grow any more.
C12_Witness ==
    /\ stream.stage = "copying"
    /\ stream.prevLen = LARGE_BUFFER_SIZE
    /\ stream.len_read = LARGE_BUFFER_SIZE
    /\ stream.bufLen = LARGE_BUFFER_SIZE

====
